---- MODULE Spec2Model ----
(***************************************************************************)
(* A model of cetos, the vessel fuel and energy consumption estimator:     *)
(* the input records of cetos/models.py (VoyageLeg, VesselData,            *)
(* VoyageProfile) with their construction-time validation, the result      *)
(* records, and the estimation engine and the energy-system sizer that     *)
(* produce them.                                                           *)
(*                                                                         *)
(* Numbers.  A Python float is modelled as an exact rational <<n, d>> in   *)
(* lowest terms with d > 0, or as NaN (<<0, 0>>).  Every comparison with   *)
(* NaN is false, as in Python, so `x < 0` and `not 0 <= x` differ on NaN.  *)
(* Rounding is modelled only for the speed conversions of cetos/utils.py,  *)
(* which are computed in binary64 (see that section).                      *)
(***************************************************************************)
EXTENDS Integers, Sequences, FiniteSets, TLC

VARIABLES
    vessel,     \* the VesselData object the last VesselData(...) yielded
    leg,        \* the VoyageLeg object the last VoyageLeg(...) yielded
    voyage,     \* the VoyageProfile object the last VoyageProfile(...) yielded
                \* (each NoRecord when there is none: the constructor raised)
    result,     \* the last result record returned or constructed, or NoRecord
    call,       \* the last operation and its arguments
    error,      \* what the last operation raised: "none" or an exception name
    writes,     \* number of attribute assignments / list updates made so far
    profiles,   \* the VoyageProfile objects a caller holds side by side, whose
                \* leg fields refer to list objects (used where it matters
                \* which list object a field holds)
    heap        \* the list objects those fields refer to: heap[ref] is the
                \* content of the list at reference ref

vars == <<vessel, leg, voyage, result, call, error, writes, profiles, heap>>

NoRecord == [none |-> TRUE]
NoCall == [op |-> "none"]

-----------------------------------------------------------------------------
(* Float arithmetic *)

NaN == <<0, 0>>
None == <<>>

RECURSIVE GCD(_, _)
GCD(a, b) == IF b = 0 THEN a ELSE GCD(b, a % b)

Abs(x) == IF x < 0 THEN 0 - x ELSE x

IsNaN(a) == a[2] = 0

\* n / d in lowest terms; d # 0
Q(n, d) ==
    LET s == IF d < 0 THEN 0 - 1 ELSE 1
        g == GCD(Abs(n), Abs(d))
    IN  << (s * n) \div g, (s * d) \div g >>

Num(n) == <<n, 1>>

\* a < b, a <= b: false when either side is NaN
Lt(a, b) == ~IsNaN(a) /\ ~IsNaN(b) /\ a[1] * b[2] < b[1] * a[2]
Le(a, b) == ~IsNaN(a) /\ ~IsNaN(b) /\ a[1] * b[2] <= b[1] * a[2]

Add(a, b) ==
    IF IsNaN(a) \/ IsNaN(b) THEN NaN
    ELSE LET g == GCD(a[2], b[2])
         IN  Q(a[1] * (b[2] \div g) + b[1] * (a[2] \div g), (a[2] \div g) * b[2])

Mul(a, b) ==
    IF IsNaN(a) \/ IsNaN(b) THEN NaN
    ELSE LET g1 == GCD(Abs(a[1]), b[2])
             g2 == GCD(Abs(b[1]), a[2])
         IN  Q((a[1] \div g1) * (b[1] \div g2), (a[2] \div g2) * (b[2] \div g1))

\* a / b for b # 0 (Python raises ZeroDivisionError on b = 0)
Div(a, b) ==
    IF IsNaN(a) \/ IsNaN(b) THEN NaN
    ELSE Mul(a, Q(b[2], b[1]))

Zero == Num(0)

-----------------------------------------------------------------------------
(* cetos/enums.py *)

VesselType ==
    { "bulk_carrier", "chemical_tanker", "container", "general_cargo",
      "liquified_gas_tanker", "oil_tanker", "other_liquids_tanker",
      "ferry-pax", "cruise", "ferry-ropax", "refrigerated_cargo", "roro",
      "vehicle", "yacht", "miscellaneous-fishing", "service-tug", "offshore",
      "service-other", "miscellaneous-other" }

FuelType == { "HFO", "MDO", "MeOH", "LNG" }

EngineType ==
    { "SSD", "MSD", "HSD", "LNG-Otto-MS", "LBSI", "gas_turbine",
      "steam_turbine" }

EngineAge == { "before_1984", "1984-2000", "after_2000" }

\* The vessel types for which the VesselData docstring makes size optional.
SizeExemptTypes ==
    { "yacht", "service-tug", "miscellaneous-fishing", "offshore",
      "service-other", "miscellaneous-other" }

-----------------------------------------------------------------------------
(* VoyageLeg *)

\* A variant of VoyageLeg.__post_init__ that follows the class docstring
\* ("distance ... must be > 0") and rejects a zero distance.
VoyageLeg_post_init_rejects_zero_distance(self) ==
    \/ Le(self.distance, Zero)
    \/ Le(self.speed, Zero)
    \/ Le(self.draft, Zero)

\* VoyageLeg.__post_init__: TRUE when it raises ValueError.
VoyageLeg_post_init_raises(self) ==
    \/ Lt(self.distance, Zero)
    \/ Le(self.speed, Zero)
    \/ Le(self.draft, Zero)

\* The dataclass-generated __init__: the fields as given.
VoyageLeg(distance, speed, draft) ==
    [distance |-> distance, speed |-> speed, draft |-> draft]

-----------------------------------------------------------------------------
(* VesselData *)

\* VesselData._validate_range: TRUE when it raises ValueError.
validate_range_raises(value, min_val, max_val) ==
    ~(Le(min_val, value) /\ Le(value, max_val))

\* VesselData.__post_init__: TRUE when it raises ValueError.
VesselData_post_init_raises(self) ==
    \/ validate_range_raises(self.length, Q(5, 1), Q(450, 1))
    \/ validate_range_raises(self.beam, Q(3, 2), Q(70, 1))
    \/ validate_range_raises(self.design_speed, Q(1, 1), Q(50, 1))
    \/ validate_range_raises(self.design_draft, Q(1, 10), Q(25, 1))
    \/ validate_range_raises(self.propulsion_engine_power, Q(5, 1), Q(60000, 1))
    \/ /\ self.size # None
       /\ validate_range_raises(self.size, Q(0, 1), Q(500000, 1))

\* The dataclass-generated __init__: the fields as given (a record of the
\* twelve fields); __post_init__ then validates it.

\* src/tests/fixtures.py
OIL_TANKER_VESSEL ==
    [ length |-> Num(200), beam |-> Num(30), design_speed |-> Num(15),
      design_draft |-> Num(12), double_ended |-> FALSE,
      number_of_propulsion_engines |-> 1,
      propulsion_engine_power |-> Num(8000),
      propulsion_engine_type |-> "SSD",
      propulsion_engine_age |-> "after_2000",
      propulsion_engine_fuel_type |-> "HFO",
      type |-> "oil_tanker", size |-> Num(50000) ]

OFFSHORE_VESSEL ==
    [ length |-> Num(100), beam |-> Num(20), design_speed |-> Num(10),
      design_draft |-> Num(7), double_ended |-> FALSE,
      number_of_propulsion_engines |-> 1,
      propulsion_engine_power |-> Num(1000),
      propulsion_engine_type |-> "MSD",
      propulsion_engine_age |-> "after_2000",
      propulsion_engine_fuel_type |-> "MDO",
      type |-> "offshore", size |-> None ]

FixtureVessels == { OIL_TANKER_VESSEL, OFFSHORE_VESSEL }

VesselFields ==
    { "length", "beam", "design_speed", "design_draft", "double_ended",
      "number_of_propulsion_engines", "propulsion_engine_power",
      "propulsion_engine_type", "propulsion_engine_age",
      "propulsion_engine_fuel_type", "type", "size" }

\* The values a caller passes for each field: both sides of every documented
\* bound, NaN, an absent size, and tags outside the enums.
VesselTestValues(f) ==
    CASE f = "length" -> { NaN, Num(4), Num(5), Num(450), Num(451) }
      [] f = "beam" -> { Num(1), Q(3, 2), Num(70), Num(71) }
      [] f = "design_speed" -> { Num(0), Num(1), Num(50), Num(51) }
      [] f = "design_draft" -> { Q(1, 20), Q(1, 10), Num(25), Num(26) }
      [] f = "double_ended" -> { TRUE, FALSE }
      [] f = "number_of_propulsion_engines" -> { 0, 1, 4, 5 }
      [] f = "propulsion_engine_power" ->
            { Num(4), Num(5), Num(60000), Num(60001) }
      [] f = "propulsion_engine_type" -> { "MSD", "diesel" }
      [] f = "propulsion_engine_age" -> { "before_1984", "new" }
      [] f = "propulsion_engine_fuel_type" -> { "LNG", "coal" }
      [] f = "type" -> { "ferry-pax", "yacht", "submarine" }
      [] f = "size" ->
            { None, Num(0 - 1), Num(0), Num(500000), Num(500001) }

\* Attribute assignments and list updates explored per behaviour.
MaxWrites == 1

\* VesselData(...): a ValueError in __post_init__ yields no object.
NewVesselData ==
    \E base \in FixtureVessels, f \in VesselFields :
      \E v \in VesselTestValues(f) :
        LET self == [base EXCEPT ![f] = v]
        IN  /\ call' = [op |-> "VesselData", args |-> self]
            /\ IF VesselData_post_init_raises(self)
               THEN error' = "ValueError" /\ vessel' = NoRecord
               ELSE error' = "none" /\ vessel' = self
            /\ UNCHANGED <<profiles, heap, leg, voyage, result, writes>>

\* vessel.<f> = v: VesselData is a plain (not frozen) dataclass, so the
\* assignment succeeds and runs no validation.
SetVesselAttr ==
    /\ vessel # NoRecord
    /\ writes < MaxWrites
    /\ \E f \in VesselFields :
         \E v \in VesselTestValues(f) :
           /\ vessel' = [vessel EXCEPT ![f] = v]
           /\ call' = [op |-> "setattr", args |-> <<f, v>>]
    /\ error' = "none"
    /\ writes' = writes + 1
    /\ UNCHANGED <<profiles, heap, leg, voyage, result>>

InitRecords ==
    /\ vessel = NoRecord
    /\ leg = NoRecord
    /\ voyage = NoRecord
    /\ result = NoRecord
    /\ call = NoCall
    /\ error = "none"
    /\ writes = 0
    /\ profiles = <<>>
    /\ heap = <<>>

NextVessel == NewVesselData \/ SetVesselAttr

SpecVessel == InitRecords /\ [][NextVessel]_vars

-----------------------------------------------------------------------------
(* VoyageLeg in use *)

\* The values a caller passes for a leg field: both sides of zero, and NaN.
LegTestValues == { NaN, Num(0 - 1), Num(0), Num(1) }

LegFields == { "distance", "speed", "draft" }

\* VoyageLeg(distance, speed, draft)
NewVoyageLeg ==
    \E distance \in LegTestValues, speed \in LegTestValues,
       draft \in LegTestValues :
        LET self == VoyageLeg(distance, speed, draft)
        IN  /\ call' = [op |-> "VoyageLeg", args |-> self]
            /\ IF VoyageLeg_post_init_raises(self)
               THEN error' = "ValueError" /\ leg' = NoRecord
               ELSE error' = "none" /\ leg' = self
            /\ UNCHANGED <<profiles, heap, vessel, voyage, result, writes>>

\* leg.<f> = v: VoyageLeg is a plain (not frozen) dataclass.
SetLegAttr ==
    /\ leg # NoRecord
    /\ writes < MaxWrites
    /\ \E f \in LegFields, v \in LegTestValues :
         /\ leg' = [leg EXCEPT ![f] = v]
         /\ call' = [op |-> "setattr", args |-> <<f, v>>]
    /\ error' = "none"
    /\ writes' = writes + 1
    /\ UNCHANGED <<profiles, heap, vessel, voyage, result>>

NextLeg == NewVoyageLeg \/ SetLegAttr

SpecLeg == InitRecords /\ [][NextLeg]_vars

-----------------------------------------------------------------------------
(* VoyageProfile *)

\* max_hours = 24 * 365 in VoyageProfile.__post_init__
max_hours == Num(24 * 365)

\* VoyageProfile.__post_init__: TRUE when it raises ValueError.
VoyageProfile_post_init_raises(self) ==
    \/ ~(Le(Zero, self.time_anchored) /\ Le(self.time_anchored, max_hours))
    \/ ~(Le(Zero, self.time_at_berth) /\ Le(self.time_at_berth, max_hours))

\* The dataclass-generated __init__; an omitted leg list is a fresh empty
\* list (field(default_factory=list)).
VoyageProfile(time_anchored, time_at_berth, legs_manoeuvring, legs_at_sea) ==
    [ time_anchored |-> time_anchored, time_at_berth |-> time_at_berth,
      legs_manoeuvring |-> legs_manoeuvring, legs_at_sea |-> legs_at_sea ]

default_factory_list == <<>>

\* The values a caller passes for the two durations.
TimeTestValues == { NaN, Num(0 - 1), Num(0), Num(8760), Num(8761) }

\* src/tests/fixtures.py, OFFSHORE_SHORT_VOYAGE
FixtureLegs == { VoyageLeg(Num(10), Num(10), Num(7)) }

\* The leg lists a caller passes: omitted, or a list of one leg.
LegListArgs == { default_factory_list } \cup { <<l>> : l \in FixtureLegs }

\* The values of the legs appended to a profile's lists.
AppendDistances == { Num(0), Num(10) }
AppendSpeeds == { Num(0), Num(5), Num(10) }
AppendDrafts == { Num(0), Num(6) }

\* Legs held by one profile, over both lists.
MaxLegs == 2

LegLists == { "legs_manoeuvring", "legs_at_sea" }

\* VoyageProfile(time_anchored, time_at_berth[, legs_manoeuvring, legs_at_sea])
NewVoyageProfile ==
    \E ta \in TimeTestValues, tb \in TimeTestValues,
       lm \in LegListArgs, ls \in LegListArgs :
        LET self == VoyageProfile(ta, tb, lm, ls)
        IN  /\ call' = [op |-> "VoyageProfile", args |-> self]
            /\ IF VoyageProfile_post_init_raises(self)
               THEN error' = "ValueError" /\ voyage' = NoRecord
               ELSE error' = "none" /\ voyage' = self
            /\ UNCHANGED <<profiles, heap, vessel, leg, result, writes>>

\* voyage.<list>.append(VoyageLeg(distance, speed, draft))
AppendLeg ==
    /\ voyage # NoRecord
    /\ Len(voyage.legs_manoeuvring) + Len(voyage.legs_at_sea) < MaxLegs
    /\ \E list \in LegLists, distance \in AppendDistances,
          speed \in AppendSpeeds, draft \in AppendDrafts :
         LET new == VoyageLeg(distance, speed, draft)
         IN  /\ call' = [op |-> "append", args |-> <<list, new>>]
             /\ IF VoyageLeg_post_init_raises(new)
                THEN error' = "ValueError" /\ voyage' = voyage
                ELSE /\ error' = "none"
                     /\ voyage' = [voyage EXCEPT ![list] = Append(@, new)]
    /\ UNCHANGED <<profiles, heap, vessel, leg, result, writes>>

\* voyage.time_anchored = v, voyage.time_at_berth = v: VoyageProfile is a
\* plain (not frozen) dataclass.
SetVoyageAttr ==
    /\ voyage # NoRecord
    /\ writes < MaxWrites
    /\ \E f \in { "time_anchored", "time_at_berth" }, v \in TimeTestValues :
         /\ voyage' = [voyage EXCEPT ![f] = v]
         /\ call' = [op |-> "setattr", args |-> <<f, v>>]
    /\ error' = "none"
    /\ writes' = writes + 1
    /\ UNCHANGED <<profiles, heap, vessel, leg, result>>

\* voyage.<list>[i].<f> = v: the legs a profile holds are plain dataclasses.
SetListLegAttr ==
    /\ voyage # NoRecord
    /\ writes < MaxWrites
    /\ \E list \in LegLists, f \in LegFields, v \in LegTestValues :
         \E i \in 1..Len(voyage[list]) :
           /\ voyage' = [voyage EXCEPT ![list][i][f] = v]
           /\ call' = [op |-> "setattr", args |-> <<list, i, f, v>>]
    /\ error' = "none"
    /\ writes' = writes + 1
    /\ UNCHANGED <<profiles, heap, vessel, leg, result>>

NextVoyage == NewVoyageProfile \/ AppendLeg \/ SetVoyageAttr \/ SetListLegAttr

SpecVoyage == InitRecords /\ [][NextVoyage]_vars

-----------------------------------------------------------------------------
(* Construction-time contracts of the input records *)

InRange(x, lo, hi) == Le(lo, x) /\ Le(x, hi)

\* The ranges the VesselData docstring documents.
InDocumentedRanges(v) ==
    /\ InRange(v.length, Num(5), Num(450))
    /\ InRange(v.beam, Q(3, 2), Num(70))
    /\ InRange(v.design_speed, Num(1), Num(50))
    /\ InRange(v.design_draft, Q(1, 10), Num(25))
    /\ v.number_of_propulsion_engines \in { 1, 2, 3, 4 }
    /\ InRange(v.propulsion_engine_power, Num(5), Num(60000))
    /\ v.size # None => InRange(v.size, Num(0), Num(500000))

\* C3: constructing a VesselData with size = None raises a validation error
\* whenever the type is not one of the six exempt types, and succeeds for an
\* exempt type (the other fields being in range).
C3_SizeRequiredUnlessExempt ==
    (call.op = "VesselData" /\ call.args.size = None) =>
        /\ call.args.type \notin SizeExemptTypes => error = "ValueError"
        /\ (call.args.type \in SizeExemptTypes /\ InDocumentedRanges(call.args))
              => (error = "none" /\ vessel = call.args)

\* C4: every VesselData that construction accepts has every field within its
\* documented range, and a construction with a field out of range raises and
\* yields no record.
C4_AcceptedVesselInDocumentedRanges ==
    call.op = "VesselData" =>
        /\ error = "none" => (vessel = call.args /\ InDocumentedRanges(vessel))
        /\ ~InDocumentedRanges(call.args) =>
              (error = "ValueError" /\ vessel = NoRecord)

\* C5: VoyageLeg(distance, speed, draft) raises exactly when distance < 0 or
\* speed <= 0 or draft <= 0; distance = 0 with positive speed and draft is
\* accepted; every accepted leg has distance >= 0, speed > 0 and draft > 0.
C5_LegRejectedExactlyWhenOutOfRange ==
    call.op = "VoyageLeg" =>
        /\ error = "ValueError" <=>
              \/ Lt(call.args.distance, Zero)
              \/ Le(call.args.speed, Zero)
              \/ Le(call.args.draft, Zero)
        /\ error = "none" =>
              /\ leg = call.args
              /\ Le(Zero, leg.distance)
              /\ Lt(Zero, leg.speed)
              /\ Lt(Zero, leg.draft)

\* The constraints the constructors check, on a profile and the legs it holds.
ValidLeg(l) == Le(Zero, l.distance) /\ Lt(Zero, l.speed) /\ Lt(Zero, l.draft)

ValidVoyage(p) ==
    /\ InRange(p.time_anchored, Zero, Num(8760))
    /\ InRange(p.time_at_berth, Zero, Num(8760))
    /\ \A i \in 1..Len(p.legs_manoeuvring) : ValidLeg(p.legs_manoeuvring[i])
    /\ \A i \in 1..Len(p.legs_at_sea) : ValidLeg(p.legs_at_sea[i])

\* C6: input records are immutable, so the constraints checked at
\* construction hold of a profile and its legs in every reachable state.
C6_ConstructedRecordsStayValid ==
    voyage # NoRecord => ValidVoyage(voyage)

\* C9: the categorical fields are checked at construction: no constructed
\* VesselData carries a tag outside VesselType / EngineType / EngineAge /
\* FuelType.
C9_TagsCheckedAtConstruction ==
    (call.op = "VesselData" /\ error = "none") =>
        /\ vessel.type \in VesselType
        /\ vessel.propulsion_engine_type \in EngineType
        /\ vessel.propulsion_engine_age \in EngineAge
        /\ vessel.propulsion_engine_fuel_type \in FuelType

-----------------------------------------------------------------------------
(* Result records (cetos/models.py) *)

\* A variant of the defaults in which the two optional-looking fields default
\* to None, as steam_boilers_kg does.
FuelConsumptionBreakdown_defaults_none ==
    [ propulsion_engines_kg |-> None,
      average_fuel_consumption_l_per_nm |-> None,
      steam_boilers_kg |-> None ]

\* The field defaults of FuelConsumptionBreakdown.
FuelConsumptionBreakdown_defaults ==
    [ propulsion_engines_kg |-> Zero,
      average_fuel_consumption_l_per_nm |-> Zero,
      steam_boilers_kg |-> None ]

\* FuelConsumptionBreakdown(subtotal_kg=..., auxiliary_engines_kg=...,
\* steam_boilers_kg=...): the other two fields take their defaults.
FuelConsumptionBreakdown_stationary(subtotal_kg, auxiliary_engines_kg, steam_boilers_kg) ==
    [ subtotal_kg |-> subtotal_kg,
      auxiliary_engines_kg |-> auxiliary_engines_kg,
      propulsion_engines_kg |->
          FuelConsumptionBreakdown_defaults.propulsion_engines_kg,
      average_fuel_consumption_l_per_nm |->
          FuelConsumptionBreakdown_defaults.average_fuel_consumption_l_per_nm,
      steam_boilers_kg |-> steam_boilers_kg ]

\* FuelConsumptionBreakdown with every field given.
FuelConsumptionBreakdown(subtotal_kg, auxiliary_engines_kg, propulsion_engines_kg, average_fuel_consumption_l_per_nm, steam_boilers_kg) ==
    [ subtotal_kg |-> subtotal_kg,
      auxiliary_engines_kg |-> auxiliary_engines_kg,
      propulsion_engines_kg |-> propulsion_engines_kg,
      average_fuel_consumption_l_per_nm |-> average_fuel_consumption_l_per_nm,
      steam_boilers_kg |-> steam_boilers_kg ]

\* FuelConsumptionResult: the five fields as given; nothing is checked.
FuelConsumptionResult(total_kg, at_berth, anchored, manoeuvring, at_sea) ==
    [ total_kg |-> total_kg, at_berth |-> at_berth, anchored |-> anchored,
      manoeuvring |-> manoeuvring, at_sea |-> at_sea ]

-----------------------------------------------------------------------------
(* The estimation engine (cetos.imo).  Its source is not part of src/; it  *)
(* is modelled from the specification, sections 4.1 to 4.4.  The reference *)
(* coefficients are representative: the specification leaves the tables    *)
(* open (section 9), and no property below depends on their values.        *)

Modes == { "at_berth", "anchored", "manoeuvring", "at_sea" }

\* 4.1: specific fuel consumption of the propulsion engines, g/kWh, or None
\* when the table has no entry for the combination.
propulsion_sfc(engine_type, engine_age, fuel_type) ==
    LET base ==
            CASE engine_type = "SSD" /\ fuel_type = "HFO" -> 175
              [] engine_type = "SSD" /\ fuel_type = "MDO" -> 165
              [] engine_type = "MSD" /\ fuel_type = "HFO" -> 185
              [] engine_type = "MSD" /\ fuel_type = "MDO" -> 175
              [] engine_type = "HSD" /\ fuel_type = "MDO" -> 185
              [] engine_type = "LNG-Otto-MS" /\ fuel_type = "LNG" -> 156
              [] OTHER -> 0
        aged ==
            CASE engine_age = "before_1984" -> 30
              [] engine_age = "1984-2000" -> 10
              [] engine_age = "after_2000" -> 0
              [] OTHER -> 0 - 1
    IN  IF base = 0 \/ aged < 0 THEN None ELSE Num(base + aged)

\* 4.1: specific fuel consumption of the auxiliary engines and the boilers.
auxiliary_sfc(fuel_type) == IF fuel_type = "HFO" THEN Num(195) ELSE Num(185)
boiler_sfc(fuel_type) == IF fuel_type = "HFO" THEN Num(340) ELSE Num(320)

\* 4.1/4.3: auxiliary power demand in kW per mode, by vessel type and size
\* (a fixed default when size is absent); None when the type has no entry.
auxiliary_power_kw(type, size, mode) ==
    CASE type = "oil_tanker" ->
            IF size = None THEN Num(250)
            ELSE IF Lt(size, Num(20000)) THEN Num(500) ELSE Num(750)
      [] type = "offshore" -> Num(320)
      [] type = "general_cargo" ->
            IF mode \in { "at_berth", "anchored" } THEN Num(120) ELSE Num(190)
      [] type \in { "ferry-pax", "ferry-ropax" } -> Num(105)
      [] OTHER -> None

\* 4.3: boiler power demand in kW per mode; None where the vessel has no
\* boiler demand.
boiler_power_kw(type, size, mode) ==
    IF type \in { "oil_tanker", "chemical_tanker" }
    THEN CASE mode = "at_berth" -> Num(1500)
           [] mode = "anchored" -> Num(300)
           [] OTHER -> Num(150)
    ELSE None

\* 4.2: fuel density in kg per litre; None for an unrecognised fuel type.
fuel_density(fuel_type) ==
    CASE fuel_type = "HFO" -> Q(99, 100)
      [] fuel_type = "MDO" -> Q(9, 10)
      [] fuel_type = "MeOH" -> Q(79, 100)
      [] fuel_type = "LNG" -> Q(9, 20)
      [] OTHER -> None

\* 4.2: mass_to_volume(mass_kg, fuel_type) = mass_kg / density(fuel_type)
calculate_fuel_volume(mass_kg, fuel_type) == Div(mass_kg, fuel_density(fuel_type))

\* A variant of the power law that scales with the speed ratio, not its cube.
propulsion_power_kw_linear(v, l) ==
    Mul(Mul(Mul(Num(v.number_of_propulsion_engines), v.propulsion_engine_power),
            Div(l.speed, v.design_speed)),
        Div(l.draft, v.design_draft))

\* 4.3: propulsion power demand of a leg, kW: the installed power scaled by
\* the cube of the speed ratio and by the draft ratio.
propulsion_power_kw(v, l) ==
    LET installed == Mul(Num(v.number_of_propulsion_engines),
                         v.propulsion_engine_power)
        speed_ratio == Div(l.speed, v.design_speed)
        draft_ratio == Div(l.draft, v.design_draft)
    IN  Mul(Mul(installed, Mul(speed_ratio, Mul(speed_ratio, speed_ratio))),
            draft_ratio)

\* 4.4: transit time of a leg, hours.
leg_hours(l) == Div(l.distance, l.speed)

\* 4.4: fuel_mass = power_kw * (distance_nm / speed_kn) * sfc / 1000
fuel_mass_kg(power_kw, hours, sfc) ==
    Mul(Mul(power_kw, hours), Div(sfc, Num(1000)))

\* 4.4: propulsion fuel of one leg, kg.
leg_propulsion_kg(v, l) ==
    fuel_mass_kg(propulsion_power_kw(v, l), leg_hours(l),
                 propulsion_sfc(v.propulsion_engine_type,
                                v.propulsion_engine_age,
                                v.propulsion_engine_fuel_type))

leg_auxiliary_kg(v, l, mode) ==
    fuel_mass_kg(auxiliary_power_kw(v.type, v.size, mode), leg_hours(l),
                 auxiliary_sfc(v.propulsion_engine_fuel_type))

leg_boiler_kg(v, l, mode) ==
    fuel_mass_kg(boiler_power_kw(v.type, v.size, mode), leg_hours(l),
                 boiler_sfc(v.propulsion_engine_fuel_type))

has_boiler(v) == boiler_power_kw(v.type, v.size, "at_sea") # None

RECURSIVE sum_propulsion_kg(_, _)
sum_propulsion_kg(v, legs) ==
    IF legs = <<>> THEN Zero
    ELSE Add(leg_propulsion_kg(v, Head(legs)), sum_propulsion_kg(v, Tail(legs)))

RECURSIVE sum_auxiliary_kg(_, _, _)
sum_auxiliary_kg(v, legs, mode) ==
    IF legs = <<>> THEN Zero
    ELSE Add(leg_auxiliary_kg(v, Head(legs), mode),
             sum_auxiliary_kg(v, Tail(legs), mode))

RECURSIVE sum_boiler_kg(_, _, _)
sum_boiler_kg(v, legs, mode) ==
    IF legs = <<>> THEN Zero
    ELSE Add(leg_boiler_kg(v, Head(legs), mode),
             sum_boiler_kg(v, Tail(legs), mode))

RECURSIVE sum_distance(_)
sum_distance(legs) ==
    IF legs = <<>> THEN Zero
    ELSE Add(Head(legs).distance, sum_distance(Tail(legs)))

\* 4.4: the breakdown of a stationary mode (at-berth, anchored).
stationary_breakdown(v, hours, mode) ==
    LET aux == fuel_mass_kg(auxiliary_power_kw(v.type, v.size, mode), hours,
                            auxiliary_sfc(v.propulsion_engine_fuel_type))
        boiler == fuel_mass_kg(boiler_power_kw(v.type, v.size, mode), hours,
                               boiler_sfc(v.propulsion_engine_fuel_type))
    IN  IF has_boiler(v)
        THEN FuelConsumptionBreakdown_stationary(Add(aux, boiler), aux, boiler)
        ELSE FuelConsumptionBreakdown_stationary(aux, aux, None)

\* A variant of legs_breakdown whose rate is fuel mass per distance (kg/nm):
\* the conversion to volume of 4.2 is left out.
legs_breakdown_mass_rate(v, legs, mode) ==
    LET prop == sum_propulsion_kg(v, legs)
        aux == sum_auxiliary_kg(v, legs, mode)
        boiler == IF has_boiler(v) THEN sum_boiler_kg(v, legs, mode) ELSE None
        subtotal == IF has_boiler(v) THEN Add(Add(prop, aux), boiler)
                    ELSE Add(prop, aux)
        distance == sum_distance(legs)
        rate == IF distance = Zero THEN Zero ELSE Div(subtotal, distance)
    IN  FuelConsumptionBreakdown(subtotal, aux, prop, rate, boiler)

\* 4.4: the breakdown of a mode made of legs (manoeuvring, at-sea).
legs_breakdown(v, legs, mode) ==
    LET prop == sum_propulsion_kg(v, legs)
        aux == sum_auxiliary_kg(v, legs, mode)
        boiler == IF has_boiler(v) THEN sum_boiler_kg(v, legs, mode) ELSE None
        subtotal == IF has_boiler(v) THEN Add(Add(prop, aux), boiler)
                    ELSE Add(prop, aux)
        distance == sum_distance(legs)
        rate == IF distance = Zero THEN Zero
                ELSE Div(calculate_fuel_volume(subtotal,
                             v.propulsion_engine_fuel_type), distance)
    IN  FuelConsumptionBreakdown(subtotal, aux, prop, rate, boiler)

\* A variant of the total that leaves the anchored subtotal out.
total_of_without_anchored(at_berth, anchored, manoeuvring, at_sea) ==
    Add(Add(at_berth.subtotal_kg, manoeuvring.subtotal_kg), at_sea.subtotal_kg)

\* 4.4: the total is the sum of the four mode subtotals.
total_of(at_berth, anchored, manoeuvring, at_sea) ==
    Add(Add(Add(at_berth.subtotal_kg, anchored.subtotal_kg),
            manoeuvring.subtotal_kg), at_sea.subtotal_kg)

\* 6/7: what estimate_fuel_consumption raises on (v, p): "none" or LookupError.
estimate_raises(v, p) ==
    IF \/ propulsion_sfc(v.propulsion_engine_type, v.propulsion_engine_age,
                         v.propulsion_engine_fuel_type) = None
       \/ auxiliary_power_kw(v.type, v.size, "at_sea") = None
       \/ fuel_density(v.propulsion_engine_fuel_type) = None
    THEN "LookupError" ELSE "none"

\* 6: estimate_fuel_consumption(vessel, voyage) -> FuelConsumptionResult
estimate_fuel_consumption(v, p) ==
    LET at_berth == stationary_breakdown(v, p.time_at_berth, "at_berth")
        anchored == stationary_breakdown(v, p.time_anchored, "anchored")
        manoeuvring == legs_breakdown(v, p.legs_manoeuvring, "manoeuvring")
        at_sea == legs_breakdown(v, p.legs_at_sea, "at_sea")
    IN  FuelConsumptionResult(
            total_of(at_berth, anchored, manoeuvring, at_sea),
            at_berth, anchored, manoeuvring, at_sea)

-----------------------------------------------------------------------------
(* Estimation in use *)

\* The vessels handed to the engine: constructed (so validated) records; the
\* third has an engine / fuel combination the reference table lacks.
EstimateVessels ==
    { v \in { OIL_TANKER_VESSEL, OFFSHORE_VESSEL,
              [OFFSHORE_VESSEL EXCEPT !.propulsion_engine_fuel_type = "LNG"] } :
        ~VesselData_post_init_raises(v) }

\* The profiles the caller starts from: constructed with the leg lists
\* omitted.
EstimateProfiles ==
    { p \in { VoyageProfile(ta, tb, default_factory_list, default_factory_list) :
                ta \in TimeTestValues, tb \in TimeTestValues } :
        ~VoyageProfile_post_init_raises(p) }

InitEstimate ==
    /\ vessel \in EstimateVessels
    /\ voyage \in EstimateProfiles
    /\ leg = NoRecord
    /\ result = NoRecord
    /\ call = NoCall
    /\ error = "none"
    /\ writes = 0
    /\ profiles = <<>>
    /\ heap = <<>>

\* result = estimate_fuel_consumption(vessel, voyage)
EstimateFuelConsumption ==
    /\ vessel # NoRecord
    /\ voyage # NoRecord
    /\ call' = [op |-> "estimate_fuel_consumption"]
    /\ error' = estimate_raises(vessel, voyage)
    /\ result' = IF estimate_raises(vessel, voyage) = "none"
                 THEN estimate_fuel_consumption(vessel, voyage)
                 ELSE NoRecord
    /\ UNCHANGED <<profiles, heap, vessel, leg, voyage, writes>>

\* The totals a caller passes when building a FuelConsumptionResult itself.
DirectTotals == { Num(0), Num(4) }

\* result = FuelConsumptionResult(total_kg, b, b, b, b), built by the caller
\* from four breakdowns of subtotal 1 kg each.
NewFuelConsumptionResult ==
    /\ \E total_kg \in DirectTotals :
         LET b == FuelConsumptionBreakdown_stationary(Num(1), Num(1), None)
         IN  /\ result' = FuelConsumptionResult(total_kg, b, b, b, b)
             /\ call' = [op |-> "FuelConsumptionResult", args |-> total_kg]
    /\ error' = "none"
    /\ UNCHANGED <<profiles, heap, vessel, leg, voyage, writes>>

NextEstimate == AppendLeg \/ EstimateFuelConsumption \/ NewFuelConsumptionResult

SpecEstimate == InitEstimate /\ [][NextEstimate]_vars

Estimated == call.op = "estimate_fuel_consumption" /\ error = "none"

SumOfSubtotals(r) ==
    Add(Add(Add(r.at_berth.subtotal_kg, r.anchored.subtotal_kg),
            r.manoeuvring.subtotal_kg), r.at_sea.subtotal_kg)

C2_StationaryModesHaveNoPropulsion ==
    Estimated =>
        /\ result.at_berth.propulsion_engines_kg = Zero
        /\ result.at_berth.average_fuel_consumption_l_per_nm = Zero
        /\ result.anchored.propulsion_engines_kg = Zero
        /\ result.anchored.average_fuel_consumption_l_per_nm = Zero

\* C2 witness: an estimate with time at berth and at anchor, fuel burnt in
\* both, and propulsion fuel burnt at sea.
C2_Witness ==
    /\ Estimated
    /\ Lt(Zero, voyage.time_at_berth)
    /\ Lt(Zero, voyage.time_anchored)
    /\ Lt(Zero, result.at_berth.subtotal_kg)
    /\ Lt(Zero, result.anchored.subtotal_kg)
    /\ Lt(Zero, result.at_sea.propulsion_engines_kg)

\* legs without its i-th element
RemoveAt(legs, i) ==
    [ j \in 1..(Len(legs) - 1) |-> IF j < i THEN legs[j] ELSE legs[j + 1] ]

LegMode(list) == IF list = "legs_manoeuvring" THEN "manoeuvring" ELSE "at_sea"

FasterSpeeds == { Num(5), Num(10), Num(20) }

\* C8 (as claimed): for every at-sea leg with distance >= 0, raising the
\* speed, distance and draft fixed, strictly increases the leg's propulsion
\* fuel.
C8_FasterLegBurnsStrictlyMore ==
    (vessel # NoRecord /\ voyage # NoRecord
        /\ estimate_raises(vessel, voyage) = "none") =>
      \A i \in 1..Len(voyage.legs_at_sea) :
        \A v2 \in FasterSpeeds :
          LET l == voyage.legs_at_sea[i]
          IN  Lt(l.speed, v2) =>
                Lt(leg_propulsion_kg(vessel, l),
                   leg_propulsion_kg(vessel, [l EXCEPT !.speed = v2]))

\* C8 (amended): for every at-sea leg with distance > 0, raising the speed,
\* distance and draft fixed, strictly increases the leg's propulsion fuel;
\* for a leg with distance = 0 the propulsion fuel is zero at every speed.
C8_FasterLegBurnsMoreUnlessZeroDistance ==
    (vessel # NoRecord /\ voyage # NoRecord
        /\ estimate_raises(vessel, voyage) = "none") =>
      \A i \in 1..Len(voyage.legs_at_sea) :
        \A v2 \in FasterSpeeds :
          LET l == voyage.legs_at_sea[i]
              before == leg_propulsion_kg(vessel, l)
              after == leg_propulsion_kg(vessel, [l EXCEPT !.speed = v2])
          IN  Lt(l.speed, v2) =>
                IF Lt(Zero, l.distance) THEN Lt(before, after)
                ELSE before = Zero /\ after = Zero

\* C8 witness: an estimated voyage with an at-sea leg of positive distance
\* sailed below the fastest speed, and one of zero distance.
C8_Witness ==
    /\ Estimated
    /\ \E i \in 1..Len(voyage.legs_at_sea) :
         /\ Lt(Zero, voyage.legs_at_sea[i].distance)
         /\ Lt(voyage.legs_at_sea[i].speed, Num(10))
    /\ \E i \in 1..Len(voyage.legs_at_sea) :
         voyage.legs_at_sea[i].distance = Zero

-----------------------------------------------------------------------------
(* Energy-system records (cetos/models.py) *)

\* ReferenceValues(): the field defaults.
ReferenceValues_defaults ==
    [ reference_fuel_cell_volume_m3 |-> Mul(Mul(Q(730, 1000), Q(9, 10)), Q(22, 10)),
      reference_fuel_cell_weight_kg |-> Num(1070),
      reference_fuel_cell_power_kw |-> Num(185),
      reference_fuel_cell_efficiency_pct |-> Num(45),
      reference_battery_pack_volume_m3 |-> Q(143058717, 100000000),
      reference_battery_pack_weight_kg |-> Num(1628),
      reference_battery_pack_capacity_kwh |-> Num(124),
      reference_battery_pack_depth_of_discharge_pct |-> Num(80),
      reference_hydrogen_gas_tank_volume_m3 |-> Q(1033, 1000),
      reference_hydrogen_gas_tank_capacity_kg |-> Q(184, 10),
      reference_hydrogen_gas_tank_weight_kg |-> Num(272) ]

\* EnergySystemComponent: weight and volume, and the three optional ratings
\* (None when not given).
EnergySystemComponent(weight_kg, volume_m3, power_kw, capacity_kwh, capacity_kg) ==
    [ weight_kg |-> weight_kg, volume_m3 |-> volume_m3, power_kw |-> power_kw,
      capacity_kwh |-> capacity_kwh, capacity_kg |-> capacity_kg ]

\* EnergySystemResult: the three fields as given.
EnergySystemResult(total_weight_kg, total_volume_m3, details) ==
    [ total_weight_kg |-> total_weight_kg, total_volume_m3 |-> total_volume_m3,
      details |-> details ]

-----------------------------------------------------------------------------
(* The energy-system sizer.  Its source is not part of src/; it is         *)
(* modelled from the specification, sections 4.5 and 6.                    *)

Components == { "fuel_cell", "battery", "hydrogen_tank" }

\* The field of the requirements that holds a component's target: power for
\* fuel cells, capacity for batteries, mass for hydrogen tanks.
target_of(requirements, c) ==
    CASE c = "fuel_cell" -> requirements.power_kw
      [] c = "battery" -> requirements.capacity_kwh
      [] c = "hydrogen_tank" -> requirements.capacity_kg

reference_capacity(ref, c) ==
    CASE c = "fuel_cell" -> ref.reference_fuel_cell_power_kw
      [] c = "battery" -> ref.reference_battery_pack_capacity_kwh
      [] c = "hydrogen_tank" -> ref.reference_hydrogen_gas_tank_capacity_kg

reference_weight(ref, c) ==
    CASE c = "fuel_cell" -> ref.reference_fuel_cell_weight_kg
      [] c = "battery" -> ref.reference_battery_pack_weight_kg
      [] c = "hydrogen_tank" -> ref.reference_hydrogen_gas_tank_weight_kg

reference_volume(ref, c) ==
    CASE c = "fuel_cell" -> ref.reference_fuel_cell_volume_m3
      [] c = "battery" -> ref.reference_battery_pack_volume_m3
      [] c = "hydrogen_tank" -> ref.reference_hydrogen_gas_tank_volume_m3

\* A variant of the unit count that sizes every component from the power
\* target when one is given.
reference_units_from_power(requirements, ref, c) ==
    IF requirements.power_kw # None
    THEN Div(requirements.power_kw, reference_capacity(ref, c))
    ELSE Div(target_of(requirements, c), reference_capacity(ref, c))

\* 4.5: units = target / reference_unit_capacity, fractional.
reference_units(requirements, ref, c) ==
    Div(target_of(requirements, c), reference_capacity(ref, c))

\* 4.5: one component, its weight and volume scaled by the unit count.
size_component(requirements, ref, c) ==
    LET units == reference_units(requirements, ref, c)
        target == target_of(requirements, c)
    IN  EnergySystemComponent(
            Mul(reference_weight(ref, c), units),
            Mul(reference_volume(ref, c), units),
            IF c = "fuel_cell" THEN target ELSE None,
            IF c = "battery" THEN target ELSE None,
            IF c = "hydrogen_tank" THEN target ELSE None)

requested(requirements) == { c \in Components : target_of(requirements, c) # None }

\* 6: ValidationError if a required target is negative.
size_raises(requirements) ==
    IF \E c \in requested(requirements) : Lt(target_of(requirements, c), Zero)
    THEN "ValidationError" ELSE "none"

RECURSIVE sum_weight(_, _)
sum_weight(details, cs) ==
    IF cs = {} THEN Zero
    ELSE LET c == CHOOSE x \in cs : TRUE
         IN  Add(details[c].weight_kg, sum_weight(details, cs \ {c}))

RECURSIVE sum_volume(_, _)
sum_volume(details, cs) ==
    IF cs = {} THEN Zero
    ELSE LET c == CHOOSE x \in cs : TRUE
         IN  Add(details[c].volume_m3, sum_volume(details, cs \ {c}))

\* 6: size_energy_system(requirements, reference_values) -> EnergySystemResult
size_energy_system(requirements, ref) ==
    LET details == [ c \in requested(requirements) |->
                        size_component(requirements, ref, c) ]
    IN  EnergySystemResult(sum_weight(details, DOMAIN details),
                           sum_volume(details, DOMAIN details), details)

\* The targets a caller asks for (None: the component is not requested).
PowerTargets == { None, Num(0 - 1), Num(0), Num(100), Num(185) }
CapacityTargets == { None, Num(0 - 1), Num(0), Num(62), Num(124) }
MassTargets == { None, Num(0), Num(46) }

RequirementsTestValues ==
    [ power_kw : PowerTargets, capacity_kwh : CapacityTargets,
      capacity_kg : MassTargets ]

\* The reference values a caller passes: the defaults with the battery pack
\* volume cut to two decimals (sums over the nine decimals of the default
\* exceed 32-bit integers), and an override of all three units.
ReferenceTestValues ==
    { [ ReferenceValues_defaults EXCEPT
            !.reference_battery_pack_volume_m3 = Q(143, 100) ],
      [ ReferenceValues_defaults EXCEPT
            !.reference_battery_pack_volume_m3 = Q(3, 2),
            !.reference_fuel_cell_power_kw = Num(200),
            !.reference_fuel_cell_weight_kg = Num(1000),
            !.reference_hydrogen_gas_tank_capacity_kg = Num(20) ] }

\* result = size_energy_system(requirements, reference_values)
SizeEnergySystem ==
    /\ \E requirements \in RequirementsTestValues, ref \in ReferenceTestValues :
         /\ call' = [op |-> "size_energy_system", args |-> <<requirements, ref>>]
         /\ error' = size_raises(requirements)
         /\ result' = IF size_raises(requirements) = "none"
                      THEN size_energy_system(requirements, ref)
                      ELSE NoRecord
    /\ UNCHANGED <<profiles, heap, vessel, leg, voyage, writes>>

NextSizer == SizeEnergySystem

SpecSizer == InitRecords /\ [][NextSizer]_vars

Sized == call.op = "size_energy_system" /\ error = "none"

WeightOrZero(details, c) ==
    IF c \in DOMAIN details THEN details[c].weight_kg ELSE Zero

VolumeOrZero(details, c) ==
    IF c \in DOMAIN details THEN details[c].volume_m3 ELSE Zero

\* C10: the result of the sizer holds exactly the requested components; each
\* component's weight and volume are the reference weight and volume times
\* target / reference capacity; the totals are the sums over the components
\* in details; and a component's sizing is the same under every other choice
\* of the other components' targets.
C10_SizerScalesAndSumsIndependently ==
    Sized =>
      LET requirements == call.args[1]
          ref == call.args[2]
          details == result.details
      IN  /\ DOMAIN details = requested(requirements)
          /\ \A c \in DOMAIN details :
               /\ details[c].weight_kg =
                     Div(Mul(reference_weight(ref, c), target_of(requirements, c)),
                         reference_capacity(ref, c))
               /\ details[c].volume_m3 =
                     Div(Mul(reference_volume(ref, c), target_of(requirements, c)),
                         reference_capacity(ref, c))
          /\ result.total_weight_kg =
                Add(Add(WeightOrZero(details, "fuel_cell"),
                        WeightOrZero(details, "battery")),
                    WeightOrZero(details, "hydrogen_tank"))
          /\ result.total_volume_m3 =
                Add(Add(VolumeOrZero(details, "fuel_cell"),
                        VolumeOrZero(details, "battery")),
                    VolumeOrZero(details, "hydrogen_tank"))
          /\ \A other \in RequirementsTestValues :
               size_raises(other) = "none" =>
                 \A c \in DOMAIN details :
                   target_of(other, c) = target_of(requirements, c) =>
                     size_energy_system(other, ref).details[c] = details[c]

\* C10 witness: all three components requested with positive targets, the
\* fuel cell count fractional.
C10_Witness ==
    /\ Sized
    /\ DOMAIN result.details = Components
    /\ call.args[1].power_kw = Num(100)
    /\ \A c \in Components : Lt(Zero, result.details[c].weight_kg)
    /\ Lt(result.details["fuel_cell"].weight_kg,
          call.args[2].reference_fuel_cell_weight_kg)

-----------------------------------------------------------------------------
(* cetos/utils.py: the speed conversions, in binary64 arithmetic *)

(***************************************************************************)
(* knots_to_ms and ms_to_knots multiply and divide Python floats, and the  *)
(* round trip through them depends on how each operation rounds.  A        *)
(* non-negative binary64 value is modelled here as <<bits, e>>, standing   *)
(* for m * 2^e where bits is the binary numeral of m, most significant bit *)
(* first; in canonical form m is odd, or bits is empty for 0.0.  Every     *)
(* operation is computed exactly and then rounded to nearest, ties to      *)
(* even, to 53 significant bits, with gradual underflow below 2^-1022 and  *)
(* overflow to infinity from 2^1024.                                       *)
(***************************************************************************)

MantissaBits == 53
MinExponent == 0 - 1074
MaxExponent == 1024

Zero64 == << <<>>, 0 >>
Inf64 == << <<1>>, 2000 >>

Max(a, b) == IF a >= b THEN a ELSE b

\* The position of the first and of the last 1 in bits, 0 when there is none.
FirstOne(bits) ==
    IF \A i \in 1..Len(bits) : bits[i] = 0 THEN 0
    ELSE CHOOSE i \in 1..Len(bits) :
           bits[i] = 1 /\ \A j \in 1..(i - 1) : bits[j] = 0

LastOne(bits) ==
    IF \A i \in 1..Len(bits) : bits[i] = 0 THEN 0
    ELSE CHOOSE i \in 1..Len(bits) :
           bits[i] = 1 /\ \A j \in (i + 1)..Len(bits) : bits[j] = 0

LastZero(bits) ==
    IF \A i \in 1..Len(bits) : bits[i] = 1 THEN 0
    ELSE CHOOSE i \in 1..Len(bits) :
           bits[i] = 0 /\ \A j \in (i + 1)..Len(bits) : bits[j] = 1

StripLeadingZeros(bits) ==
    IF FirstOne(bits) = 0 THEN <<>>
    ELSE SubSeq(bits, FirstOne(bits), Len(bits))

TrailingZeros(bits) ==
    IF LastOne(bits) = 0 THEN 0 ELSE Len(bits) - LastOne(bits)

Zeros(n) == [i \in 1..n |-> 0]
Ones(n) == [i \in 1..n |-> 1]

\* The canonical form of bits * 2^e.
Canon(bits, e) ==
    LET b == StripLeadingZeros(bits)
        z == TrailingZeros(b)
    IN  IF b = <<>> THEN Zero64
        ELSE << SubSeq(b, 1, Len(b) - z), e + z >>

\* The binary numeral of the natural number n.
RECURSIVE Numeral(_)
Numeral(n) == IF n = 0 THEN <<>> ELSE Append(Numeral(n \div 2), n % 2)

\* The float k * 2^e, for a small natural number k.
Float(k, e) == Canon(Numeral(k), e)

Reverse(s) == [i \in 1..Len(s) |-> s[Len(s) + 1 - i]]

\* Multiplication by c, least significant bit first: digits[lo..hi] * c +
\* carry, as hi - lo + 1 digits of the product (q) and what is carried
\* beyond them (r).
RECURSIVE MulRange(_, _, _, _, _)
MulRange(digits, lo, hi, c, carry) ==
    IF lo > hi THEN [q |-> <<>>, r |-> carry]
    ELSE IF lo = hi
    THEN LET t == digits[lo] * c + carry
         IN  [q |-> << t % 2 >>, r |-> t \div 2]
    ELSE LET mid == (lo + hi) \div 2
             low == MulRange(digits, lo, mid, c, carry)
             high == MulRange(digits, mid + 1, hi, c, low.r)
         IN  [q |-> low.q \o high.q, r |-> high.r]

\* The numeral of bits * c.
MulSmall(bits, c) ==
    LET p == MulRange(Reverse(bits), 1, Len(bits), c, 0)
    IN  Numeral(p.r) \o Reverse(p.q)

\* Long division by c of the number whose numeral is that of rem followed
\* by bits[lo..hi], for rem < c: the hi - lo + 1 bits of the quotient (q) and
\* the remainder (r).
RECURSIVE DivRange(_, _, _, _, _)
DivRange(bits, lo, hi, c, rem) ==
    IF lo > hi THEN [q |-> <<>>, r |-> rem]
    ELSE IF lo = hi
    THEN LET t == rem * 2 + bits[lo]
         IN  IF t >= c THEN [q |-> <<1>>, r |-> t - c]
             ELSE [q |-> <<0>>, r |-> t]
    ELSE LET mid == (lo + hi) \div 2
             high == DivRange(bits, lo, mid, c, rem)
             low == DivRange(bits, mid + 1, hi, c, high.r)
         IN  [q |-> high.q \o low.q, r |-> low.r]

\* bits + 1, and bits - 1 for bits not zero
Inc(bits) ==
    LET k == LastZero(bits)
    IN  IF k = 0 THEN <<1>> \o Zeros(Len(bits))
        ELSE [i \in 1..Len(bits) |->
                IF i < k THEN bits[i] ELSE IF i = k THEN 1 ELSE 0]

Dec(bits) ==
    LET k == LastOne(bits)
    IN  [i \in 1..Len(bits) |->
            IF i < k THEN bits[i] ELSE IF i = k THEN 0 ELSE 1]

\* Round (bits + f) * 2^e to binary64, where bits has no leading zero and
\* 0 <= f < 1 with f > 0 exactly when sticky: round to nearest, ties to even.
Round(bits, e, sticky) ==
    LET n == Len(bits)
        drop == Max(Max(n - MantissaBits, MinExponent - e), 0)
        kept == IF drop >= n THEN <<>> ELSE SubSeq(bits, 1, n - drop)
        guard == IF drop = 0 \/ drop > n THEN 0 ELSE bits[n - drop + 1]
        rest == \/ sticky
                \/ drop > n
                \/ \E i \in (n - drop + 2)..n : i >= 1 /\ bits[i] = 1
        odd == kept # <<>> /\ kept[Len(kept)] = 1
        up == guard = 1 /\ (rest \/ odd)
        r == Canon(IF up THEN Inc(kept) ELSE kept, e + drop)
    IN  IF Len(r[1]) + r[2] > MaxExponent THEN Inf64 ELSE r

\* x * c and x / c for a float x and a small integer constant c > 0, each
\* correctly rounded.
Mul64(x, c) ==
    IF x = Inf64 \/ x = Zero64 THEN x
    ELSE Round(MulSmall(x[1], c), x[2], FALSE)

\* The quotient is computed to 70 places beyond the dividend's last bit, so
\* it always has more than MantissaBits + 2 bits.
ExtraPlaces == 70

Div64(x, c) ==
    IF x = Inf64 \/ x = Zero64 THEN x
    ELSE LET n == x[1] \o Zeros(ExtraPlaces)
             d == DivRange(n, 1, Len(n), c, 0)
         IN  Round(StripLeadingZeros(d.q), x[2] - ExtraPlaces, d.r # 0)

\* A variant of knots_to_ms that converts nautical miles to kilometres but
\* leaves the hour alone (km/h instead of m/s).
knots_to_ms_km_per_h(speed) == Div64(Mul64(speed, 1852), 1000)

\* def knots_to_ms(speed): return speed * 1852 / 3600
knots_to_ms(speed) == Div64(Mul64(speed, 1852), 3600)

\* def ms_to_knots(speed): return speed * 3600 / 1852
ms_to_knots(speed) == Div64(Mul64(speed, 3600), 1852)

\* The next float above and below a normal x.
Pad(x) ==
    << x[1] \o Zeros(MantissaBits - Len(x[1])),
       x[2] - (MantissaBits - Len(x[1])) >>

Succ64(x) == LET p == Pad(x) IN Canon(Inc(p[1]), p[2])

Pred64(x) ==
    IF x[1] = <<1>> THEN Canon(Ones(MantissaBits), x[2] - MantissaBits)
    ELSE LET p == Pad(x) IN Canon(Dec(p[1]), p[2])

\* x lies in [2^lo, 2^hi)
InBinades(x, lo, hi) ==
    /\ x # Zero64
    /\ x # Inf64
    /\ lo < Len(x[1]) + x[2]
    /\ Len(x[1]) + x[2] <= hi

-----------------------------------------------------------------------------
(* The speed conversions in use *)

\* The speeds a caller converts: whole and fractional knots (1, 3, 5, 12,
\* 15, 20, 1.125, 2.125, 8.625, 0.125, 0.1, 3.9), zero, the smallest positive
\* float, 2^-1001, 2^1023 and infinity.
SpeedTestValues ==
    { Float(1, 0), Float(3, 0), Float(5, 0), Float(12, 0), Float(15, 0),
      Float(20, 0), Float(9, 0 - 3), Float(17, 0 - 3), Float(69, 0 - 3),
      Float(1, 0 - 3), Div64(Float(1, 0), 10), Div64(Float(39, 0), 10),
      Zero64, Float(1, MinExponent), Float(1, 0 - 1001), Float(1, 1023),
      Inf64 }

\* Conversions chained in one behaviour.
MaxCalls == 2

\* A caller passes a test speed, or the value the previous conversion returned.
SpeedArgs ==
    SpeedTestValues \cup
      (IF call.op \in { "knots_to_ms", "ms_to_knots" } THEN { result } ELSE {})

KnotsToMs ==
    /\ writes < MaxCalls
    /\ \E speed \in SpeedArgs :
         /\ call' = [op |-> "knots_to_ms", args |-> <<speed>>]
         /\ result' = knots_to_ms(speed)
    /\ error' = "none"
    /\ writes' = writes + 1
    /\ UNCHANGED <<profiles, heap, vessel, leg, voyage>>

MsToKnots ==
    /\ writes < MaxCalls
    /\ \E speed \in SpeedArgs :
         /\ call' = [op |-> "ms_to_knots", args |-> <<speed>>]
         /\ result' = ms_to_knots(speed)
    /\ error' = "none"
    /\ writes' = writes + 1
    /\ UNCHANGED <<profiles, heap, vessel, leg, voyage>>

NextUtils == KnotsToMs \/ MsToKnots

SpecUtils == InitRecords /\ [][NextUtils]_vars

\* The value the opposite conversion returns for the result of the last one.
ConvertedBack ==
    IF call.op = "knots_to_ms" THEN ms_to_knots(result)
    ELSE knots_to_ms(result)

Converted == call.op \in { "knots_to_ms", "ms_to_knots" }

\* C11 as stated: for every v > 0, ms_to_knots(knots_to_ms(v)) == v and
\* knots_to_ms(ms_to_knots(v)) == v, exactly.
C11_RoundTripIsExact ==
    (Converted /\ call.args[1] # Zero64) => ConvertedBack = call.args[1]

\* C11: for every v in [2^-1000, 2^1000), ms_to_knots(knots_to_ms(v)) and
\* knots_to_ms(ms_to_knots(v)) are v or one of the two floats next above or
\* next below v (at most 2 units in the last place away).
C11_RoundTripWithinTwoUlps ==
    (Converted /\ InBinades(call.args[1], 0 - 1000, 1000)) =>
        LET v == call.args[1]
        IN  ConvertedBack \in
              { v, Succ64(v), Succ64(Succ64(v)), Pred64(v), Pred64(Pred64(v)) }

\* knots_to_ms(1.0) has been computed, and converting its result back gives
\* the float next above 1.0.
C11_Witness ==
    /\ call.op = "knots_to_ms"
    /\ call.args[1] = Float(1, 0)
    /\ result # call.args[1]
    /\ ms_to_knots(result) = Succ64(call.args[1])

-----------------------------------------------------------------------------
(* Result records in use: what a caller can do to a record it holds *)

\* dict.__setitem__ and dict.__delitem__ on a dict held as a function from
\* its keys.
dict_setitem(d, key, value) ==
    [k \in DOMAIN d \cup {key} |-> IF k = key THEN value ELSE d[k]]

dict_delitem(d, key) == [k \in DOMAIN d \ {key} |-> d[k]]

\* The components a caller puts into a details dict.
ComponentTestValues ==
    { EnergySystemComponent(Num(1070), Q(3, 2), Num(185), None, None),
      EnergySystemComponent(Num(1628), Q(3, 2), None, Num(124), None) }

\* The details dicts a result is constructed with: empty, and a fuel cell.
DetailsTestValues ==
    { [c \in S |-> EnergySystemComponent(Num(1070), Q(3, 2), Num(185), None, None)] :
        S \in { {}, { "fuel_cell" } } }

DetailsKeys == { "fuel_cell", "battery" }

\* result = EnergySystemResult(total_weight_kg, total_volume_m3, details)
NewEnergySystemResult ==
    /\ \E total_weight_kg \in { Num(0), Num(1070) }, details \in DetailsTestValues :
         /\ result' = EnergySystemResult(total_weight_kg, Q(3, 2), details)
         /\ call' = [op |-> "EnergySystemResult",
                     args |-> <<total_weight_kg, details>>]
    /\ error' = "none"
    /\ UNCHANGED <<profiles, heap, vessel, leg, voyage, writes>>

\* The values a caller tries to assign to a field of a result record.
ResultAttrValues == { Num(0), None }

\* result.<f> = v, and result.<f>.<g> = v for a field holding a breakdown:
\* the result classes are @dataclass(frozen=True), whose __setattr__ raises
\* FrozenInstanceError and assigns nothing.
SetResultAttr ==
    /\ result # NoRecord
    /\ \E f \in DOMAIN result, v \in ResultAttrValues :
         \/ call' = [op |-> "setattr", args |-> <<f, v>>]
         \/ /\ f \in { "at_berth", "anchored", "manoeuvring", "at_sea" }
            /\ \E g \in DOMAIN result[f] :
                 call' = [op |-> "setattr", args |-> <<f, g, v>>]
    /\ error' = "FrozenInstanceError"
    /\ UNCHANGED <<profiles, heap, vessel, leg, voyage, result, writes>>

\* result.details[key].<g> = v: EnergySystemComponent is frozen as well.
SetComponentAttr ==
    /\ result # NoRecord
    /\ "details" \in DOMAIN result
    /\ \E key \in DetailsKeys, v \in ResultAttrValues :
         \E g \in { "weight_kg", "volume_m3", "power_kw" } :
           /\ call' = [op |-> "setattr", args |-> <<"details", key, g, v>>]
           /\ error' = IF key \in DOMAIN result.details
                       THEN "FrozenInstanceError" ELSE "KeyError"
    /\ UNCHANGED <<profiles, heap, vessel, leg, voyage, result, writes>>

\* result.details[key] = component: details is a plain dict, so the item
\* assignment succeeds.
SetDetailsItem ==
    /\ result # NoRecord
    /\ "details" \in DOMAIN result
    /\ writes < MaxWrites
    /\ \E key \in DetailsKeys, component \in ComponentTestValues :
         /\ call' = [op |-> "setitem", args |-> <<key, component>>]
         /\ result' = [result EXCEPT !.details = dict_setitem(@, key, component)]
    /\ error' = "none"
    /\ writes' = writes + 1
    /\ UNCHANGED <<profiles, heap, vessel, leg, voyage>>

\* del result.details[key]
DelDetailsItem ==
    /\ result # NoRecord
    /\ "details" \in DOMAIN result
    /\ writes < MaxWrites
    /\ \E key \in DetailsKeys :
         /\ call' = [op |-> "delitem", args |-> <<key>>]
         /\ IF key \in DOMAIN result.details
            THEN /\ result' = [result EXCEPT !.details = dict_delitem(@, key)]
                 /\ error' = "none"
            ELSE /\ result' = result
                 /\ error' = "KeyError"
    /\ writes' = writes + 1
    /\ UNCHANGED <<profiles, heap, vessel, leg, voyage>>

NextResults ==
    \/ NewEnergySystemResult
    \/ NewFuelConsumptionResult
    \/ SetResultAttr
    \/ SetComponentAttr
    \/ SetDetailsItem
    \/ DelDetailsItem

SpecResults == InitRecords /\ [][NextResults]_vars

ResultConstructors == { "EnergySystemResult", "FuelConsumptionResult" }

\* C12: once a result record is constructed, no operation on it changes any
\* of its contents (the entries of EnergySystemResult.details included): the
\* record a caller holds changes only by constructing another one.
C12_ResultRecordsNeverChange ==
    [][(result # NoRecord /\ call'.op \notin ResultConstructors) =>
          result' = result]_vars

-----------------------------------------------------------------------------
(* The average consumption rate of the modes made of legs *)

\* The legs of the profile that make up a mode.
ModeLegs(p, mode) ==
    IF mode = "manoeuvring" THEN p.legs_manoeuvring ELSE p.legs_at_sea

\* C13: estimate_fuel_consumption raises no division error, and in its result
\* the average_fuel_consumption_l_per_nm of the manoeuvring and of the at-sea
\* mode is exactly 0 when the mode's legs have total distance zero (no legs,
\* or only zero-distance legs), and otherwise the mode's fuel volume divided
\* by the sum of its leg distances.
C13_AverageRateGuardedForZeroDistance ==
    /\ call.op = "estimate_fuel_consumption" => error # "ZeroDivisionError"
    /\ Estimated =>
         \A mode \in { "manoeuvring", "at_sea" } :
           LET distance == sum_distance(ModeLegs(voyage, mode))
               rate == result[mode].average_fuel_consumption_l_per_nm
           IN  IF distance = Zero THEN rate = Zero
               ELSE rate =
                      Div(calculate_fuel_volume(result[mode].subtotal_kg,
                              vessel.propulsion_engine_fuel_type), distance)

\* C13 witness: an estimate for a voyage whose only manoeuvring leg has zero
\* distance (rate 0) and whose at-sea leg has a positive distance (rate > 0).
C13_Witness ==
    /\ Estimated
    /\ Len(voyage.legs_manoeuvring) = 1
    /\ sum_distance(voyage.legs_manoeuvring) = Zero
    /\ result.manoeuvring.average_fuel_consumption_l_per_nm = Zero
    /\ Lt(Zero, sum_distance(voyage.legs_at_sea))
    /\ Lt(Zero, result.at_sea.average_fuel_consumption_l_per_nm)

-----------------------------------------------------------------------------
(* VoyageProfile objects side by side: which list object each field holds *)

(***************************************************************************)
(* A Python list is an object, and two fields holding the same list see    *)
(* each other's appends.  Here heap[ref] is the content of the list object *)
(* at reference ref, and the leg fields of the profiles in `profiles` hold *)
(* references.  Each entry of `profiles` is the object (self) together     *)
(* with the names of the fields its constructor call left out (omitted).   *)
(***************************************************************************)

\* dataclasses.MISSING: the argument was not passed.
MISSING == 0

\* A variant of the default factory that hands out one list, made once, to
\* every field that is left out (a shared mutable default).
default_factory_shared(h) ==
    [ heap |-> IF h = <<>> THEN << default_factory_list >> ELSE h, ref |-> 1 ]

\* field(default_factory=list): list() is called for each omitted field of
\* each construction, and makes a new empty list object.
default_factory(h) ==
    [ heap |-> Append(h, default_factory_list), ref |-> Len(h) + 1 ]

\* The value a leg field gets: the default factory's list when the argument
\* is missing, the list object passed otherwise.
field_value(h, arg) ==
    IF arg = MISSING THEN default_factory(h) ELSE [heap |-> h, ref |-> arg]

\* Profiles constructed and legs appended in one behaviour.
MaxProfiles == 2
MaxAppends == 2

\* The durations passed: valid, and out of range.
ProfileTimes == { Num(0), Num(0 - 1) }

\* p = VoyageProfile(time_anchored, 0[, legs_manoeuvring][, legs_at_sea]),
\* each leg list either left out or a list object some profile already holds.
NewVoyageProfileObject ==
    /\ Len(profiles) < MaxProfiles
    /\ \E time_anchored \in ProfileTimes,
          lm \in {MISSING} \cup DOMAIN heap, ls \in {MISSING} \cup DOMAIN heap :
         LET a == field_value(heap, lm)
             b == field_value(a.heap, ls)
             self == VoyageProfile(time_anchored, Num(0), a.ref, b.ref)
             omitted == { f \in LegLists :
                            IF f = "legs_manoeuvring" THEN lm = MISSING
                            ELSE ls = MISSING }
         IN  /\ call' = [op |-> "VoyageProfile",
                         args |-> <<time_anchored, lm, ls>>]
             /\ IF VoyageProfile_post_init_raises(self)
                THEN /\ error' = "ValueError"
                     /\ UNCHANGED <<profiles, heap>>
                ELSE /\ error' = "none"
                     /\ profiles' =
                          Append(profiles, [self |-> self, omitted |-> omitted])
                     /\ heap' = b.heap
    /\ UNCHANGED <<vessel, leg, voyage, result, writes>>

\* profiles[i].<list>.append(leg)
AppendLegTo ==
    /\ writes < MaxAppends
    /\ \E i \in 1..Len(profiles), list \in LegLists, new \in FixtureLegs :
         /\ call' = [op |-> "append", args |-> <<i, list, new>>]
         /\ heap' = [heap EXCEPT ![profiles[i].self[list]] = Append(@, new)]
    /\ error' = "none"
    /\ writes' = writes + 1
    /\ UNCHANGED <<vessel, leg, voyage, result, profiles>>

NextProfiles == NewVoyageProfileObject \/ AppendLegTo

SpecProfiles == InitRecords /\ [][NextProfiles]_vars

\* What profile i's leg field shows, given the list objects in h.
Legs(h, i, list) == h[profiles[i].self[list]]

\* C14: appending a leg to a leg list that a profile got by default (the
\* argument was left out at construction) adds the leg to that list and
\* leaves unchanged every other default leg list: those of every other
\* profile, and the other list of the same profile.
C14_DefaultLegListsAreSeparate ==
    [][call'.op = "append" =>
         LET i == call'.args[1]
             list == call'.args[2]
         IN  list \in profiles[i].omitted =>
               /\ Legs(heap', i, list) = Append(Legs(heap, i, list), call'.args[3])
               /\ \A j \in 1..Len(profiles) :
                    \A other \in profiles[j].omitted :
                      <<j, other>> # <<i, list>> =>
                        Legs(heap', j, other) = Legs(heap, j, other)]_vars

\* C14 witness: two profiles, both constructed with both leg lists left out;
\* a leg was appended to the first one's legs_at_sea, which now holds it,
\* while the other three lists are still empty.
C14_Witness ==
    /\ Len(profiles) = 2
    /\ profiles[1].omitted = LegLists
    /\ profiles[2].omitted = LegLists
    /\ call.op = "append"
    /\ call.args[1] = 1
    /\ call.args[2] = "legs_at_sea"
    /\ Legs(heap, 1, "legs_at_sea") = << call.args[3] >>
    /\ Legs(heap, 1, "legs_manoeuvring") = <<>>
    /\ Legs(heap, 2, "legs_at_sea") = <<>>
    /\ Legs(heap, 2, "legs_manoeuvring") = <<>>

====
